---- MODULE Spec2Model ----
(***************************************************************************)
(* Model of the R. Pharma storefront scripts:                              *)
(*   src/products/products-page.js  ProductsPage, ProductManager,          *)
(*                                  UIManager, the site-wide               *)
(*                                  DOMContentLoaded handler, Carousel     *)
(*   src/unnamed/part_000           ProductDetailPage                      *)
(*                                                                         *)
(* Spec         one page (listing or detail) from DOMContentLoaded on:     *)
(*              the two loadProducts calls, the page controller's init     *)
(*              and the listing page's filter events.                      *)
(* SpecProbe    the async blocks "probeImages, then create" on the         *)
(*              containers of a page.                                      *)
(* SpecCreate   Carousel.create called with any URL list and options.      *)
(* SpecProbeFair one async block at a time, every started image load       *)
(*              reporting success or failure eventually.                   *)
(* SpecOverlap  two async blocks at once, on the same or on different      *)
(*              containers, with image loads that may fail in transport.   *)
(***************************************************************************)
EXTENDS Integers, Sequences, FiniteSets, TLC

VARIABLES
    page,              \* which page controller is on the page
    catalog,           \* content of the products.json resource
    idParam,           \* the "id" query parameter of the page URL
    heap,              \* the arrays of the page, by reference
    products,          \* ProductManager.products (a reference)
    allProducts,       \* the page controller's allProducts (a reference)
    filteredProducts,  \* ProductsPage.filteredProducts (a reference)
    filters,           \* ProductsPage.filters
    pc,                \* position of each DOMContentLoaded handler
    ret,               \* the array each loadProducts call resolved with
    outcome,           \* how each loadProducts call ended
    storeWrites,       \* number of assignments to ProductManager.products
    ui,                \* listing page: grid, count, "no results" indicator
    detailView,        \* detail page: what #productDetail shows
    related,           \* detail page: what #relatedProducts shows
    files,             \* the image files a product folder holds: <<index, ext>>
    bootstrap,         \* window.bootstrap.Carousel: absent, works or throws
    folderOf,          \* the data-folder attribute of each container
    task,              \* each async block "probeImages, then create"
    dom,               \* each container: its children and its fallback class
    lastCall,          \* the arguments of the last create call per container
    loadLog            \* the image loads each probeImages call has started

pageVars == <<page, catalog, idParam, heap, products, allProducts,
              filteredProducts, filters, pc, ret, outcome, storeWrites,
              ui, detailView, related>>

carouselVars == <<files, bootstrap, folderOf, task, dom, lastCall, loadLog>>

vars == <<pageVars, carouselVars>>

----------------------------------------------------------------------------
(* Bounds of the model *)

MaxCatalog == 3      \* longest catalog
MaxSearchLen == 2    \* longest search text typed
MaxIdLen == 2        \* longest text of the id query parameter
MaxFolderLen == 1    \* longest data-folder attribute
MaxRun == 13         \* longest run of consecutive images in a folder
MaxUrls == 2         \* longest URL list handed to Carousel.create directly
MaxOverlapRun == 1   \* longest run of images when two blocks run at once

----------------------------------------------------------------------------
(* Strings are sequences of characters *)

\* letters typed into the search box; names also use "a"
SearchChars == {"A", "b"}

RECURSIVE StringsUpTo(_, _)
StringsUpTo(alphabet, n) ==
    IF n = 0 THEN {<<>>}
    ELSE LET shorter == StringsUpTo(alphabet, n - 1)
         IN shorter \cup {Append(s, c) : s \in shorter, c \in alphabet}

Range(s) == {s[i] : i \in 1..Len(s)}

LowerChar(c) == IF c = "A" THEN "a" ELSE IF c = "B" THEN "b" ELSE c

\* String.prototype.toLowerCase
toLowerCase(s) == [i \in 1..Len(s) |-> LowerChar(s[i])]

\* String.prototype.includes
includes(s, q) ==
    \E k \in 0..Len(s) : k + Len(q) <= Len(s) /\ SubSeq(s, k + 1, k + Len(q)) = q

\* collation weight of a letter, case ignored
LetterRank(c) == IF LowerChar(c) = "a" THEN 1 ELSE 2

RECURSIVE PrimaryCompare(_, _)
PrimaryCompare(a, b) ==
    IF a = <<>> /\ b = <<>> THEN 0
    ELSE IF a = <<>> THEN -1
    ELSE IF b = <<>> THEN 1
    ELSE IF LetterRank(Head(a)) < LetterRank(Head(b)) THEN -1
    ELSE IF LetterRank(Head(a)) > LetterRank(Head(b)) THEN 1
    ELSE PrimaryCompare(Tail(a), Tail(b))

\* strings equal up to case: the lower-case letter sorts first
RECURSIVE CaseCompare(_, _)
CaseCompare(a, b) ==
    IF a = <<>> \/ b = <<>> THEN 0
    ELSE IF Head(a) = Head(b) THEN CaseCompare(Tail(a), Tail(b))
    ELSE IF Head(a) = LowerChar(Head(a)) THEN -1 ELSE 1

\* String.prototype.localeCompare
localeCompare(a, b) ==
    IF PrimaryCompare(a, b) # 0 THEN PrimaryCompare(a, b) ELSE CaseCompare(a, b)

----------------------------------------------------------------------------
(* Products and catalogs *)

ProductPool ==
    { [id |-> 1,  name |-> <<"A", "b">>, description |-> <<"b", "a">>,
       category |-> "cardiac",    price |-> 10],
      [id |-> 2,  name |-> <<"a", "b">>, description |-> <<"b">>,
       category |-> "supplement", price |-> 5],
      [id |-> 12, name |-> <<"b">>,      description |-> <<"A", "a">>,
       category |-> "cardiac",    price |-> 10] }

\* catalogs: product ids are unique
RECURSIVE CatalogsUpTo(_)
CatalogsUpTo(n) ==
    IF n = 0 THEN {<<>>}
    ELSE LET shorter == CatalogsUpTo(n - 1)
         IN shorter \cup {Append(c, p) : c \in shorter,
                                          p \in ProductPool}

Catalogs == {c \in CatalogsUpTo(MaxCatalog) :
                \A i, j \in 1..Len(c) : i # j => c[i].id # c[j].id}

----------------------------------------------------------------------------
(* ProductsPage: the filter/sort pipeline *)

DefaultFilters ==
    [search |-> <<>>, category |-> "", maxPrice |-> 250, sortBy |-> "name"]

\* the callback of allProducts.filter in applyFilters
MatchesBugStrictPrice(product, f) ==
    /\ f.search # <<>> =>
          \/ includes(toLowerCase(product.name), toLowerCase(f.search))
          \/ includes(toLowerCase(product.description), toLowerCase(f.search))
    /\ ~(f.category # "" /\ product.category # f.category)
    /\ ~(product.price >= f.maxPrice)

Matches(product, f) ==
    /\ f.search # <<>> =>
          \/ includes(toLowerCase(product.name), toLowerCase(f.search))
          \/ includes(toLowerCase(product.description), toLowerCase(f.search))
    /\ ~(f.category # "" /\ product.category # f.category)
    /\ ~(product.price > f.maxPrice)

\* the comparator applySort hands to Array.prototype.sort
CompareBugPriceHigh(sortBy, a, b) ==
    CASE sortBy = "price-low"  -> a.price - b.price
      [] sortBy = "price-high" -> a.price - b.price
      [] OTHER                 -> localeCompare(a.name, b.name)

Compare(sortBy, a, b) ==
    CASE sortBy = "price-low"  -> a.price - b.price
      [] sortBy = "price-high" -> b.price - a.price
      [] OTHER                 -> localeCompare(a.name, b.name)

\* Array.prototype.sort is stable: an insertion sort under the comparator
RECURSIVE InsertSorted(_, _, _)
InsertSorted(sortBy, s, x) ==
    IF s = <<>> THEN <<x>>
    ELSE IF Compare(sortBy, s[Len(s)], x) > 0
         THEN Append(InsertSorted(sortBy, SubSeq(s, 1, Len(s) - 1), x), s[Len(s)])
         ELSE Append(s, x)

RECURSIVE SortArray(_, _)
SortArray(sortBy, s) ==
    IF s = <<>> THEN <<>>
    ELSE InsertSorted(sortBy, SortArray(sortBy, SubSeq(s, 1, Len(s) - 1)), s[Len(s)])

\* applySort: sorts a copy of the filtered array
applySort(filtered, f) == SortArray(f.sortBy, filtered)

\* applyFilters on the heap: the derived array is a new one
applyFiltersBugSortInPlace(hp, all, f) ==
    LET sortedAll == SortArray(f.sortBy, hp[all])
    IN [hp EXCEPT ![all] = sortedAll,
                  !["derived"] = SelectSeq(sortedAll, LAMBDA p : Matches(p, f))]

applyFilters(hp, all, f) ==
    [hp EXCEPT !["derived"] =
        applySort(SelectSeq(hp[all], LAMBDA p : Matches(p, f)), f)]

\* updateUI: displayProducts, updateProductCount, updateNoResultsMessage
updateUIBugMessageHidden(list) ==
    [grid |-> [i \in 1..Len(list) |-> list[i].id],
     count |-> Len(list),
     noResults |-> FALSE]

updateUI(list) ==
    [grid |-> [i \in 1..Len(list) |-> list[i].id],
     count |-> Len(list),
     noResults |-> (Len(list) = 0)]

----------------------------------------------------------------------------
(* ProductManager *)

Handlers == {"page", "site"}

\* the array a loadProducts call resolves with: the parsed JSON, or the
\* empty array of its catch block
RetRef(h) == IF h = "page" THEN "ret_page" ELSE "ret_site"

Refs == {"store0", "page0", "filtered0", "ret_page", "ret_site", "derived"}

\* loadProducts, failure path: fetch rejected, response not ok, or
\* response.json() rejected; the catch block returns a new empty array
LoadFailed(h) ==
    /\ heap' = [heap EXCEPT ![RetRef(h)] = <<>>]
    /\ ret' = [ret EXCEPT ![h] = RetRef(h)]
    /\ outcome' = [outcome EXCEPT ![h] = "failed"]
    /\ pc' = [pc EXCEPT ![h] = "returned"]
    /\ UNCHANGED <<products, storeWrites>>

\* loadProducts up to "await response.json()"
FetchSettle(h, result) ==
    /\ pc[h] = "fetching"
    /\ IF result = "ok"
       THEN /\ pc' = [pc EXCEPT ![h] = "json"]
            /\ UNCHANGED <<heap, ret, outcome, products, storeWrites>>
       ELSE LoadFailed(h)
    /\ UNCHANGED <<page, catalog, idParam, allProducts, filteredProducts,
                   filters, ui, detailView, related>>

\* loadProducts from "products = await response.json()" to its return
JsonSettle(h, parsed) ==
    /\ pc[h] = "json"
    /\ IF parsed
       THEN /\ heap' = [heap EXCEPT ![RetRef(h)] = catalog]
            /\ products' = RetRef(h)
            /\ storeWrites' = storeWrites + 1
            /\ ret' = [ret EXCEPT ![h] = RetRef(h)]
            /\ outcome' = [outcome EXCEPT ![h] = "ok"]
            /\ pc' = [pc EXCEPT ![h] = "returned"]
       ELSE LoadFailed(h)
    /\ UNCHANGED <<page, catalog, idParam, allProducts, filteredProducts,
                   filters, ui, detailView, related>>

\* products.find(p => p.id === parseInt(id)), id a number: << >> is undefined
getById(store, id) ==
    LET hits == SelectSeq(store, LAMBDA p : p.id = id)
    IN IF hits = <<>> THEN <<>> ELSE <<Head(hits)>>

\* the site-wide DOMContentLoaded handler after its await: the pages
\* modelled have no #featuredProducts container, so displayFeaturedProducts
\* returns at once; the carousels it starts are modelled in SpecProbe
SiteReady ==
    /\ pc["site"] = "returned"
    /\ pc' = [pc EXCEPT !["site"] = "done"]
    /\ UNCHANGED <<page, catalog, idParam, heap, products, allProducts,
                   filteredProducts, filters, ret, outcome, storeWrites,
                   ui, detailView, related>>

----------------------------------------------------------------------------
(* ProductsPage: init and the event listeners *)

\* init after "await ProductManager.loadProducts()": the spread copy is
\* replaced by applyFilters before anything reads it
ListingInit ==
    /\ page = "listing"
    /\ pc["page"] = "returned"
    /\ allProducts' = ret["page"]
    /\ heap' = applyFilters(heap, ret["page"], filters)
    /\ filteredProducts' = "derived"
    /\ ui' = updateUI(heap'["derived"])
    /\ pc' = [pc EXCEPT !["page"] = "done"]
    /\ UNCHANGED <<page, catalog, idParam, products, filters, ret, outcome,
                   storeWrites, detailView, related>>

\* common tail of the listeners: applyFilters(); updateUI()
Refilter(f) ==
    /\ page = "listing"
    /\ pc["page"] = "done"
    /\ filters' = f
    /\ heap' = applyFilters(heap, allProducts, f)
    /\ filteredProducts' = "derived"
    /\ ui' = updateUI(heap'["derived"])
    /\ UNCHANGED <<page, catalog, idParam, products, allProducts, pc, ret,
                   outcome, storeWrites, detailView, related>>

SearchInputs == StringsUpTo(SearchChars, MaxSearchLen)
CategoryInputs == {"", "cardiac"}
PriceInputs == {5, 250}
SortInputs == {"name", "price-low", "price-high", "relevance"}

SearchInput(text) == Refilter([filters EXCEPT !.search = text])

CategoryChange(value) == Refilter([filters EXCEPT !.category = value])

PriceInput(value) == Refilter([filters EXCEPT !.maxPrice = value])

SortChange(value) == Refilter([filters EXCEPT !.sortBy = value])

clearAllFilters == Refilter(DefaultFilters)

----------------------------------------------------------------------------
(* ProductDetailPage *)

IdChars == {"0", "1", "2", "a", "-"}
Digits == {"0", "1", "2"}

DigitValue(c) == IF c = "0" THEN 0 ELSE IF c = "1" THEN 1 ELSE 2

RECURSIVE LeadingDigits(_)
LeadingDigits(s) ==
    IF s = <<>> \/ Head(s) \notin Digits THEN <<>>
    ELSE <<Head(s)>> \o LeadingDigits(Tail(s))

RECURSIVE DecimalValue(_)
DecimalValue(ds) ==
    IF ds = <<>> THEN 0
    ELSE 10 * DecimalValue(SubSeq(ds, 1, Len(ds) - 1)) + DigitValue(ds[Len(ds)])

\* parseInt(urlParams.get('id')): get gives null when the parameter is
\* absent, and parseInt(null) is NaN; otherwise an optional sign and the
\* longest prefix of digits are read, NaN when there is no digit
parseInt(param) ==
    IF ~param.present THEN [nan |-> TRUE, value |-> 0]
    ELSE LET text == param.text
             negative == text # <<>> /\ Head(text) = "-"
             ds == LeadingDigits(IF negative THEN Tail(text) ELSE text)
         IN IF ds = <<>> THEN [nan |-> TRUE, value |-> 0]
            ELSE [nan |-> FALSE,
                  value |-> IF negative THEN 0 - DecimalValue(ds)
                            ELSE DecimalValue(ds)]

\* "if (productId)": NaN and 0 are falsy
Truthy(n) == ~n.nan /\ n.value # 0

\* displayRelatedProducts: same category, another id, at most four
relatedOf(all, product) ==
    LET same == SelectSeq(all, LAMBDA p : p.category = product.category
                                          /\ p.id # product.id)
    IN SubSeq(same, 1, IF Len(same) < 4 THEN Len(same) ELSE 4)

\* init after "await ProductManager.loadProducts()"
DetailInit ==
    /\ page = "detail"
    /\ pc["page"] = "returned"
    /\ allProducts' = ret["page"]
    /\ LET productId == parseInt(idParam)
           currentProduct == getById(heap[products], productId.value)
       IN IF Truthy(productId)
          THEN IF currentProduct # <<>>
               THEN /\ detailView' = [kind |-> "product", message |-> "",
                                      shown |-> currentProduct]
                    /\ related' = relatedOf(heap[ret["page"]], currentProduct[1])
               ELSE /\ detailView' = [kind |-> "error",
                                      message |-> "Product not found",
                                      shown |-> <<>>]
                    /\ UNCHANGED related
          ELSE /\ detailView' = [kind |-> "error",
                                 message |-> "No product specified",
                                 shown |-> <<>>]
               /\ UNCHANGED related
    /\ pc' = [pc EXCEPT !["page"] = "done"]
    /\ UNCHANGED <<page, catalog, idParam, heap, products, filteredProducts,
                   filters, ret, outcome, storeWrites, ui>>

----------------------------------------------------------------------------
(* One page, from the moment both DOMContentLoaded handlers have issued     *)
(* their fetch                                                              *)

IdParams ==
    {[present |-> FALSE, text |-> <<>>]}
    \cup {[present |-> TRUE, text |-> t] : t \in StringsUpTo(IdChars, MaxIdLen)}

PageInit ==
    /\ page \in {"listing", "detail"}
    /\ catalog \in Catalogs
    /\ idParam \in IdParams
    /\ page = "listing" => ~idParam.present
    /\ heap = [r \in Refs |-> <<>>]
    /\ products = "store0"
    /\ allProducts = "page0"
    /\ filteredProducts = "filtered0"
    /\ filters = DefaultFilters
    /\ pc = [h \in Handlers |-> "fetching"]
    /\ ret = [h \in Handlers |-> "none"]
    /\ outcome = [h \in Handlers |-> "pending"]
    /\ storeWrites = 0
    /\ ui = [grid |-> <<>>, count |-> 0, noResults |-> FALSE]
    /\ detailView = [kind |-> "blank", message |-> "", shown |-> <<>>]
    /\ related = <<>>

PageNext ==
    \/ \E h \in Handlers, result \in {"ok", "notok", "reject"} :
          FetchSettle(h, result)
    \/ \E h \in Handlers, parsed \in BOOLEAN : JsonSettle(h, parsed)
    \/ SiteReady
    \/ ListingInit
    \/ DetailInit
    \/ \E text \in SearchInputs : SearchInput(text)
    \/ \E value \in CategoryInputs : CategoryChange(value)
    \/ \E value \in PriceInputs : PriceInput(value)
    \/ \E value \in SortInputs : SortChange(value)
    \/ clearAllFilters

----------------------------------------------------------------------------
(* Carousel: probeImages *)

MAX_IMAGES == 12
EXTENSIONS == <<"jpeg", "jpg", "png">>

\* data-folder attributes: a letter, an escaped blank, an escaped slash
FolderTokens == {"a", "%20", "%2F"}
Folders == StringsUpTo(FolderTokens, MaxFolderLen)

decodeURIComponent(s) ==
    [i \in 1..Len(s) |-> IF s[i] = "%20" THEN " "
                         ELSE IF s[i] = "%2F" THEN "/" ELSE s[i]]

encodeURIComponent(s) ==
    [i \in 1..Len(s) |-> IF s[i] = " " THEN "%20"
                         ELSE IF s[i] = "/" THEN "%2F" ELSE s[i]]

RECURSIVE trimStart(_)
trimStart(s) == IF s # <<>> /\ Head(s) = " " THEN trimStart(Tail(s)) ELSE s

RECURSIVE trimEnd(_)
trimEnd(s) ==
    IF s # <<>> /\ s[Len(s)] = " " THEN trimEnd(SubSeq(s, 1, Len(s) - 1)) ELSE s

\* String.prototype.trim
trim(s) == trimEnd(trimStart(s))

\* .replace(/%2F/g, '/')
replaceSlashes(s) == [i \in 1..Len(s) |-> IF s[i] = "%2F" THEN "/" ELSE s[i]]

\* "decoded" of probeImages
decodedBugNoTrim(folder) == decodeURIComponent(folder)

decoded(folder) == trim(decodeURIComponent(folder))

encodedFolder(folder) == replaceSlashes(encodeURIComponent(decoded(folder)))

\* `${basePath}${encodedFolder}/${i}.${ext}`; basePath is fixed per page
Url(folder, i, e) ==
    [folder |-> encodedFolder(folder), index |-> i, ext |-> EXTENSIONS[e]]

\* loadImage: onload when the file exists, onerror otherwise
loadImage(url) == <<url.index, url.ext>> \in files

IdleTask ==
    [pc |-> "idle", container |-> "none", caller |-> "none", folder |-> <<>>,
     i |-> 0, e |-> 0, urls |-> <<>>, loads |-> 0]

\* probeImages(folder) up to its first await, or to its return when the
\* folder is empty
probeStart(tk, folder) ==
    IF folder = <<>> \/ decoded(folder) = <<>>
    THEN [tk EXCEPT !.pc = "probed", !.folder = folder, !.urls = <<>>,
                    !.i = 0, !.e = 0, !.loads = 0]
    ELSE [tk EXCEPT !.pc = "loading", !.folder = folder, !.urls = <<>>,
                    !.i = 1, !.e = 1, !.loads = 1]

\* probeImages from the settling of "await loadImage(url)" to the next
\* await or to the return
probeStepBugSkipGap(tk, ok) ==
    IF ok
    THEN IF tk.i = MAX_IMAGES
         THEN [tk EXCEPT !.pc = "probed",
                         !.urls = Append(@, Url(tk.folder, tk.i, tk.e))]
         ELSE [tk EXCEPT !.urls = Append(@, Url(tk.folder, tk.i, tk.e)),
                         !.i = @ + 1, !.e = 1, !.loads = @ + 1]
    ELSE IF tk.e < Len(EXTENSIONS)
         THEN [tk EXCEPT !.e = @ + 1, !.loads = @ + 1]
         ELSE IF tk.i = MAX_IMAGES
              THEN [tk EXCEPT !.pc = "probed"]
              ELSE [tk EXCEPT !.i = @ + 1, !.e = 1, !.loads = @ + 1]

probeStepBugNoCap(tk, ok) ==
    IF ok
    THEN [tk EXCEPT !.urls = Append(@, Url(tk.folder, tk.i, tk.e)),
                    !.i = @ + 1, !.e = 1, !.loads = @ + 1]
    ELSE IF tk.e < Len(EXTENSIONS)
         THEN [tk EXCEPT !.e = @ + 1, !.loads = @ + 1]
         ELSE [tk EXCEPT !.pc = "probed"]

probeStepBugNoBreak(tk, ok) ==
    IF ok /\ tk.e = Len(EXTENSIONS)
    THEN IF tk.i = MAX_IMAGES
         THEN [tk EXCEPT !.pc = "probed",
                         !.urls = Append(@, Url(tk.folder, tk.i, tk.e))]
         ELSE [tk EXCEPT !.urls = Append(@, Url(tk.folder, tk.i, tk.e)),
                         !.i = @ + 1, !.e = 1, !.loads = @ + 1]
    ELSE IF tk.e < Len(EXTENSIONS)
         THEN [tk EXCEPT !.e = @ + 1, !.loads = @ + 1,
                         !.urls = IF ok
                                  THEN Append(@, Url(tk.folder, tk.i, tk.e))
                                  ELSE @]
         ELSE [tk EXCEPT !.pc = "probed"]

probeStep(tk, ok) ==
    IF ok
    THEN IF tk.i = MAX_IMAGES
         THEN [tk EXCEPT !.pc = "probed",
                         !.urls = Append(@, Url(tk.folder, tk.i, tk.e))]
         ELSE [tk EXCEPT !.urls = Append(@, Url(tk.folder, tk.i, tk.e)),
                         !.i = @ + 1, !.e = 1, !.loads = @ + 1]
    ELSE IF tk.e < Len(EXTENSIONS)
         THEN [tk EXCEPT !.e = @ + 1, !.loads = @ + 1]
         ELSE [tk EXCEPT !.pc = "probed"]

----------------------------------------------------------------------------
(* Carousel: create *)

EmptyContainer == [children |-> <<>>, fallback |-> FALSE]

Glyph ==
    [type |-> "text", items |-> <<>>, active |-> 0, ride |-> FALSE,
     interval |-> <<>>, controls |-> FALSE, instance |-> <<>>]

OptionValues == {"true", "false", "undefined"}
IntervalValues == {0, 5000, 7000}

\* destructuring defaults: auto = true, controls = false
optAuto(opts) == opts.auto # "false"
optControls(opts) == opts.controls = "true"

\* the element create builds for a non-empty URL list
carouselElementBugNoControls(urls, opts) ==
    [type |-> "carousel",
     items |-> urls,
     active |-> 1,
     ride |-> optAuto(opts),
     interval |-> IF opts.interval # 0 THEN <<opts.interval>> ELSE <<>>,
     controls |-> optControls(opts) /\ ~optAuto(opts),
     instance |->
        IF bootstrap = "works"
        THEN <<[interval |-> IF optAuto(opts) THEN <<opts.interval>> ELSE <<>>,
                ride |-> optAuto(opts)]>>
        ELSE <<>>]

carouselElement(urls, opts) ==
    [type |-> "carousel",
     items |-> urls,
     active |-> 1,
     ride |-> optAuto(opts),
     interval |-> IF opts.interval # 0 THEN <<opts.interval>> ELSE <<>>,
     controls |-> optControls(opts),
     instance |->
        IF bootstrap = "works"
        THEN <<[interval |-> IF optAuto(opts) THEN <<opts.interval>> ELSE <<>>,
                ride |-> optAuto(opts)]>>
        ELSE <<>>]

\* create(container, urls, opts) on a container; urls.given is FALSE when
\* the argument is missing
createBugNoClear(d, urls, opts) ==
    IF ~urls.given \/ urls.list = <<>>
    THEN [children |-> <<Glyph>>, fallback |-> TRUE]
    ELSE [children |-> Append(d.children, carouselElement(urls.list, opts)),
          fallback |-> d.fallback]

createBugEmptyRotation(d, urls, opts) ==
    [children |-> <<carouselElement(urls.list, opts)>>, fallback |-> d.fallback]

create(d, urls, opts) ==
    IF ~urls.given \/ urls.list = <<>>
    THEN [children |-> <<Glyph>>, fallback |-> TRUE]
    ELSE [children |-> <<carouselElement(urls.list, opts)>>,
          fallback |-> d.fallback]

\* the options of the three callers of create
CallerOptions(caller) ==
    CASE caller = "initAutoCarousels" ->
            [auto |-> "true", interval |-> 7000, controls |-> "false"]
      [] caller = "detail" ->
            [auto |-> "false", interval |-> 5000, controls |-> "true"]
      [] caller = "related" ->
            [auto |-> "true", interval |-> 5000, controls |-> "false"]

Callers == {"initAutoCarousels", "detail", "related"}

----------------------------------------------------------------------------
(* The async blocks "urls = await probeImages(folder); create(node, ...)" *)

Containers == {"c1"}
Tasks == {"t1"}

\* the load probeImages is awaiting, if any: "await loadImage(url)"
PendingLoad(tk) ==
    IF tk.pc = "loading"
    THEN <<[index |-> tk.i, ext |-> EXTENSIONS[tk.e], state |-> "pending"]>>
    ELSE <<>>

\* the awaited load reports (onload / onerror) and probeImages, resumed,
\* starts the next one unless it returns
SettleLoad(log, ok, tk) ==
    [log EXCEPT ![Len(log)].state = IF ok THEN "ok" ELSE "failed"]
    \o PendingLoad(tk)

\* the block up to the first await inside probeImages
StartTask(t, c, caller) ==
    /\ task[t].pc = "idle"
    /\ task' = [task EXCEPT ![t] =
                   probeStart([IdleTask EXCEPT !.container = c,
                                               !.caller = caller],
                              folderOf[c])]
    /\ loadLog' = [loadLog EXCEPT ![t] = PendingLoad(task'[t])]
    /\ UNCHANGED <<files, bootstrap, folderOf, dom, lastCall>>

\* an image load settles and probeImages runs on
LoadSettle(t) ==
    /\ task[t].pc = "loading"
    /\ task' = [task EXCEPT ![t] =
                   probeStep(@, loadImage(Url(@.folder, @.i, @.e)))]
    /\ loadLog' = [loadLog EXCEPT ![t] =
                      SettleLoad(@, loadImage(Url(task[t].folder, task[t].i,
                                                  task[t].e)), task'[t])]
    /\ UNCHANGED <<files, bootstrap, folderOf, dom, lastCall>>

\* an image load fails in transport although the file exists: onerror
LoadError(t) ==
    /\ task[t].pc = "loading"
    /\ loadImage(Url(task[t].folder, task[t].i, task[t].e))
    /\ task' = [task EXCEPT ![t] = probeStep(@, FALSE)]
    /\ loadLog' = [loadLog EXCEPT ![t] = SettleLoad(@, FALSE, task'[t])]
    /\ UNCHANGED <<files, bootstrap, folderOf, dom, lastCall>>

\* probeImages has returned: the block calls create and ends
TaskCreate(t) ==
    /\ task[t].pc = "probed"
    /\ LET c == task[t].container
           urls == [given |-> TRUE, list |-> task[t].urls]
           opts == CallerOptions(task[t].caller)
       IN /\ dom' = [dom EXCEPT ![c] = create(@, urls, opts)]
          /\ lastCall' = [lastCall EXCEPT ![c] =
                             [made |-> TRUE, urls |-> urls, opts |-> opts]]
    /\ task' = [task EXCEPT ![t] = IdleTask]
    /\ loadLog' = [loadLog EXCEPT ![t] = <<>>]
    /\ UNCHANGED <<files, bootstrap, folderOf>>

\* Carousel.create called directly with any arguments
CreateCall(c, urls, opts) ==
    /\ dom' = [dom EXCEPT ![c] = create(@, urls, opts)]
    /\ lastCall' = [lastCall EXCEPT ![c] =
                       [made |-> TRUE, urls |-> urls, opts |-> opts]]
    /\ UNCHANGED <<files, bootstrap, folderOf, task, loadLog>>

\* folder contents: images 1..run, each under the extensions of a pattern,
\* and possibly further images after a gap
ExtensionsAt(pattern, i) ==
    CASE pattern = "jpeg"  -> {"jpeg"}
      [] pattern = "png"   -> {"png"}
      [] pattern = "mixed" -> IF i % 3 = 1 THEN {"jpg", "png"}
                              ELSE IF i % 3 = 2 THEN {"png"}
                              ELSE {"jpeg", "jpg", "png"}

FolderContent(run, pattern, afterGap) ==
    UNION {{<<i, x>> : x \in ExtensionsAt(pattern, i)} : i \in 1..run}
    \cup (IF afterGap THEN {<<run + 2, "jpeg">>, <<run + 3, "png">>} ELSE {})

FolderContents ==
    {FolderContent(run, pattern, afterGap) :
        run \in 0..MaxRun, pattern \in {"jpeg", "mixed"}, afterGap \in BOOLEAN}

NoCall ==
    [made |-> FALSE, urls |-> [given |-> FALSE, list |-> <<>>],
     opts |-> [auto |-> "undefined", interval |-> 0, controls |-> "undefined"]]

CarouselQuiet ==
    /\ files = {}
    /\ bootstrap = "absent"
    /\ folderOf = [c \in Containers |-> <<>>]
    /\ task = [t \in Tasks |-> IdleTask]
    /\ dom = [c \in Containers |-> EmptyContainer]
    /\ lastCall = [c \in Containers |-> NoCall]
    /\ loadLog = [t \in Tasks |-> <<>>]

PageQuiet ==
    /\ page = "none"
    /\ catalog = <<>>
    /\ idParam = [present |-> FALSE, text |-> <<>>]
    /\ heap = [r \in Refs |-> <<>>]
    /\ products = "store0"
    /\ allProducts = "page0"
    /\ filteredProducts = "filtered0"
    /\ filters = DefaultFilters
    /\ pc = [h \in Handlers |-> "done"]
    /\ ret = [h \in Handlers |-> "none"]
    /\ outcome = [h \in Handlers |-> "pending"]
    /\ storeWrites = 0
    /\ ui = [grid |-> <<>>, count |-> 0, noResults |-> FALSE]
    /\ detailView = [kind |-> "blank", message |-> "", shown |-> <<>>]
    /\ related = <<>>

\* the containers of a page and the folders behind them
ProbeInit ==
    /\ PageQuiet
    /\ files \in FolderContents
    /\ bootstrap \in {"absent", "works", "throws"}
    /\ folderOf \in [Containers -> Folders]
    /\ task = [t \in Tasks |-> IdleTask]
    /\ dom = [c \in Containers |-> EmptyContainer]
    /\ lastCall = [c \in Containers |-> NoCall]
    /\ loadLog = [t \in Tasks |-> <<>>]

ProbeNext ==
    \/ \E t \in Tasks, c \in Containers, caller \in Callers :
          StartTask(t, c, caller)
    \/ \E t \in Tasks : LoadSettle(t)
    \/ \E t \in Tasks : TaskCreate(t)

\* a container handed to create with any URL list and any options
SampleUrls == {Url(<<"a">>, n, 1) : n \in 1..2}

UrlArguments ==
    {[given |-> FALSE, list |-> <<>>]}
    \cup {[given |-> TRUE, list |-> l] : l \in StringsUpTo(SampleUrls, MaxUrls)}

Options == [auto : OptionValues, interval : IntervalValues,
            controls : OptionValues]

CreateInit ==
    /\ PageQuiet
    /\ files = {}
    /\ bootstrap \in {"absent", "works", "throws"}
    /\ folderOf = [c \in Containers |-> <<>>]
    /\ task = [t \in Tasks |-> IdleTask]
    /\ dom = [c \in Containers |-> EmptyContainer]
    /\ lastCall = [c \in Containers |-> NoCall]
    /\ loadLog = [t \in Tasks |-> <<>>]

CreateNext ==
    \E c \in Containers, urls \in UrlArguments, opts \in Options :
        CreateCall(c, urls, opts)

\* two callbacks of initAutoCarousels at once, of one run (Promise.all over
\* the nodes) or of several (the site-wide handler's run and the runs that
\* displayProducts schedules), on the same node or on different ones
OverlapTasks == {"t1", "t2"}
OverlapContainers == {"c1", "c2"}

OverlapContents ==
    {FolderContent(run, pattern, FALSE) :
        run \in 0..MaxOverlapRun, pattern \in {"jpeg", "mixed"}}

OverlapInit ==
    /\ PageQuiet
    /\ files \in OverlapContents
    /\ bootstrap \in {"absent", "works"}
    /\ folderOf = [c \in OverlapContainers |->
                      IF c = "c1" THEN <<"a">> ELSE <<"%2F">>]
    /\ task = [t \in OverlapTasks |-> IdleTask]
    /\ dom = [c \in OverlapContainers |-> EmptyContainer]
    /\ lastCall = [c \in OverlapContainers |-> NoCall]
    /\ loadLog = [t \in OverlapTasks |-> <<>>]

OverlapNext ==
    \/ \E t \in OverlapTasks, c \in OverlapContainers :
          StartTask(t, c, "initAutoCarousels")
    \/ \E t \in OverlapTasks : LoadSettle(t)
    \/ \E t \in OverlapTasks : LoadError(t)
    \/ \E t \in OverlapTasks : TaskCreate(t)

\* one callback at a time over folders of every length, each load reporting
\* success or failure
FairContents ==
    {FolderContent(run, pattern, FALSE) :
        run \in 0..MaxRun, pattern \in {"jpeg", "png"}}

FairInit ==
    /\ PageQuiet
    /\ files \in FairContents
    /\ bootstrap = "works"
    /\ folderOf = [c \in Containers |-> <<"a">>]
    /\ task = [t \in Tasks |-> IdleTask]
    /\ dom = [c \in Containers |-> EmptyContainer]
    /\ lastCall = [c \in Containers |-> NoCall]
    /\ loadLog = [t \in Tasks |-> <<>>]

FairNext ==
    \/ \E t \in Tasks, c \in Containers :
          StartTask(t, c, "initAutoCarousels")
    \/ \E t \in Tasks : LoadSettle(t)
    \/ \E t \in Tasks : LoadError(t)
    \/ \E t \in Tasks : TaskCreate(t)

\* every started load reports: onload or onerror fires
LoadReports(t) == (LoadSettle(t) \/ LoadError(t)) /\ UNCHANGED pageVars

----------------------------------------------------------------------------
(* Specifications *)

Init == PageInit /\ CarouselQuiet

Next == PageNext /\ UNCHANGED carouselVars

Spec == Init /\ [][Next]_vars

SpecProbe == ProbeInit /\ [][ProbeNext /\ UNCHANGED pageVars]_vars

SpecCreate == CreateInit /\ [][CreateNext /\ UNCHANGED pageVars]_vars

SpecProbeFair ==
    /\ FairInit
    /\ [][FairNext /\ UNCHANGED pageVars]_vars
    /\ \A t \in Tasks : WF_vars(LoadReports(t))

SpecOverlap == OverlapInit /\ [][OverlapNext /\ UNCHANGED pageVars]_vars

----------------------------------------------------------------------------
(* Properties of the page *)

ListingReady == page = "listing" /\ pc["page"] = "done"

\* the inclusion predicate as the specification words it
Included(p, f) ==
    /\ \/ f.search = <<>>
       \/ includes(toLowerCase(p.name), toLowerCase(f.search))
       \/ includes(toLowerCase(p.description), toLowerCase(f.search))
    /\ f.category = "" \/ p.category = f.category
    /\ p.price <= f.maxPrice

\* C1: once the listing page has run applyFilters, the filtered list holds
\* exactly the products of the catalog that pass the search, category and
\* price predicates of the current filter state, each of them once.
C1_FilterExact ==
    ListingReady =>
        LET out == heap[filteredProducts]
            all == heap[allProducts]
        IN /\ \A p \in Range(out) \cup Range(all) :
                  p \in Range(out) <=> (p \in Range(all) /\ Included(p, filters))
           /\ \A i, j \in 1..Len(out) : i # j => out[i] # out[j]

C1_Witness ==
    /\ ListingReady
    /\ filters.search # <<>>
    /\ filters.search # toLowerCase(filters.search)
    /\ filters.category # ""
    /\ Len(heap[filteredProducts]) >= 1
    /\ Len(heap[filteredProducts]) < Len(heap[allProducts])

\* C2: the filtered list is ordered by the sort key: price ascending for
\* price-low, price descending for price-high, name ascending for name and
\* for every other value of sortBy.
C2_Sorted ==
    ListingReady =>
        LET out == heap[filteredProducts]
        IN \A i \in 1..(Len(out) - 1) :
              CASE filters.sortBy = "price-low"  -> out[i].price <= out[i + 1].price
                [] filters.sortBy = "price-high" -> out[i].price >= out[i + 1].price
                [] OTHER -> localeCompare(out[i].name, out[i + 1].name) <= 0

C2_Witness ==
    /\ ListingReady
    /\ filters.sortBy = "price-high"
    /\ Len(heap[filteredProducts]) >= 2
    /\ Len(heap[filteredProducts]) = Len(heap[allProducts])
    /\ heap[allProducts][1].price < heap[allProducts][Len(heap[allProducts])].price
    /\ heap[filteredProducts][1].price > heap[allProducts][1].price

\* C3: filtering and sorting leave the loaded catalog as it was loaded: every
\* array a successful load produced, the store's array and the page's
\* allProducts among them, still equals the resource, and the arrays of
\* failed loads stay empty.
C3_CatalogUntouched ==
    /\ \A h \in Handlers :
          /\ outcome[h] = "ok" => heap[RetRef(h)] = catalog
          /\ outcome[h] = "failed" => heap[RetRef(h)] = <<>>
    /\ storeWrites > 0 => heap[products] = catalog
    /\ (ListingReady /\ outcome["page"] = "ok") => heap[allProducts] = catalog

C3_Witness ==
    /\ ListingReady
    /\ allProducts = products
    /\ filters.sortBy = "price-low"
    /\ Len(heap[filteredProducts]) = Len(catalog)
    /\ heap[filteredProducts] # catalog
    /\ heap[allProducts] = catalog

\* C8 (as claimed): a page whose loadProducts call failed behaves as if the
\* catalog were empty: it lists no product and resolves no product by id.
C8_FailedLoadShowsNothing ==
    (pc["page"] = "done" /\ outcome["page"] = "failed") =>
        /\ page = "listing" => (ui.grid = <<>> /\ ui.count = 0 /\ ui.noResults)
        /\ page = "detail" => detailView.kind # "product"

\* a text that is an integer literal: an optional sign, then digits only
IsInteger(text) ==
    LET body == IF text # <<>> /\ Head(text) = "-" THEN Tail(text) ELSE text
    IN body # <<>> /\ \A i \in 1..Len(body) : body[i] \in Digits

IntegerValue(text) ==
    IF Head(text) = "-" THEN 0 - DecimalValue(Tail(text)) ELSE DecimalValue(text)

\* C9 (as claimed): on the detail page whose catalog loaded, an absent or
\* non-integer id shows 'No product specified', an integer id without a
\* product shows 'Product not found', an id of a product shows that product.
C9_DetailCases ==
    (page = "detail" /\ pc["page"] = "done" /\ outcome["page"] = "ok") =>
        LET wellFormed == idParam.present /\ IsInteger(idParam.text)
            hits == IF wellFormed
                    THEN {p \in Range(catalog) : p.id = IntegerValue(idParam.text)}
                    ELSE {}
        IN /\ ~wellFormed =>
                 (detailView.kind = "error"
                  /\ detailView.message = "No product specified")
           /\ (wellFormed /\ hits = {}) =>
                 (detailView.kind = "error"
                  /\ detailView.message = "Product not found")
           /\ (wellFormed /\ hits # {}) =>
                 (detailView.kind = "product" /\ detailView.shown[1] \in hits)

\* C10 (as claimed): the store's product list is assigned at most once in
\* the life of a page.
C10_StoreWrittenOnce == storeWrites <= 1

----------------------------------------------------------------------------
(* Properties of the carousel *)

HasImage(i) == \E x \in Range(EXTENSIONS) : <<i, x>> \in files

\* the number of leading indices, at most MAX_IMAGES, that all have an image
LeadingRun ==
    CHOOSE k \in 0..MAX_IMAGES :
        /\ \A i \in 1..k : HasImage(i)
        /\ k < MAX_IMAGES => ~HasImage(k + 1)

\* the first extension, in priority order, present at index i
FirstExtension(i) ==
    CHOOSE e \in 1..Len(EXTENSIONS) :
        /\ <<i, EXTENSIONS[e]>> \in files
        /\ \A e2 \in 1..(e - 1) : <<i, EXTENSIONS[e2]>> \notin files

EmptyFolder(folder) == \A i \in 1..Len(folder) : folder[i] \in {"%20", " "}

\* C4: a probe of a non-empty folder returns one URL per index 1..k, in
\* ascending order, k being the length of the leading run of indices that
\* have an image (at most 12), each URL with the first extension present;
\* nothing after a gap is returned.
C4_ProbeResult ==
    \A t \in Tasks :
        (task[t].pc = "probed" /\ ~EmptyFolder(task[t].folder)) =>
            /\ Len(task[t].urls) = LeadingRun
            /\ \A i \in 1..LeadingRun :
                  task[t].urls[i] =
                      [folder |-> encodedFolder(task[t].folder), index |-> i,
                       ext |-> EXTENSIONS[FirstExtension(i)]]

C4_Witness ==
    \E t \in Tasks :
        /\ task[t].pc = "probed"
        /\ ~EmptyFolder(task[t].folder)
        /\ Len(task[t].urls) = 3
        /\ ~HasImage(4)
        /\ HasImage(5)
        /\ task[t].urls[1].ext = "jpg"
        /\ task[t].urls[2].ext = "png"
        /\ task[t].urls[3].ext = "jpeg"

\* C5: a probe of a folder identifier that is empty, or empty once decoded
\* and trimmed, starts no image load and returns the empty sequence.
C5_EmptyFolderNoLoad ==
    \A t \in Tasks :
        (task[t].caller # "none" /\ EmptyFolder(task[t].folder)) =>
            /\ task[t].loads = 0
            /\ task[t].pc # "loading"
            /\ task[t].urls = <<>>

C5_Witness ==
    \E t \in Tasks :
        /\ task[t].pc = "probed"
        /\ task[t].folder = <<"%20">>
        /\ task[t].loads = 0
        /\ files # {}

NoUrls(urls) == ~urls.given \/ urls.list = <<>>

\* C6: after create with an empty or missing URL list the container shows
\* the fallback glyph, carries the fallback class and holds no rotation
\* element and no previous/next controls, whatever auto and controls are.
C6_EmptyListFallback ==
    \A c \in Containers :
        (lastCall[c].made /\ NoUrls(lastCall[c].urls)) =>
            /\ dom[c].fallback
            /\ Len(dom[c].children) = 1
            /\ dom[c].children[1].type = "text"
            /\ \A i \in 1..Len(dom[c].children) :
                  /\ dom[c].children[i].type # "carousel"
                  /\ ~dom[c].children[i].controls
                  /\ dom[c].children[i].instance = <<>>

C6_Witness ==
    \E c \in Containers :
        /\ lastCall[c].made
        /\ ~lastCall[c].urls.given
        /\ lastCall[c].opts.controls = "true"
        /\ lastCall[c].opts.auto = "false"
        /\ dom[c].children = <<Glyph>>

AutoCall(c) ==
    /\ lastCall[c].made
    /\ lastCall[c].opts.auto = "true"
    /\ ~NoUrls(lastCall[c].urls)

----------------------------------------------------------------------------
(* Properties of overlapping blocks *)

ExtensionRank(x) == CHOOSE k \in 1..Len(EXTENSIONS) : EXTENSIONS[k] = x

\* C12: within one probeImages call at most one image load is in flight, and
\* the loads start in the order (1,jpeg), (1,jpg), (1,png), (2,jpeg), ...:
\* the next extension of an index only after the previous one failed, the
\* next index only after an extension of the current one succeeded; probes of
\* different folders may be in flight together.
C12_OneLoadInOrder ==
    \A t \in DOMAIN loadLog :
        LET log == loadLog[t]
        IN /\ \A k \in 1..Len(log) : log[k].state = "pending" => k = Len(log)
           /\ log # <<>> => log[1].index = 1 /\ log[1].ext = EXTENSIONS[1]
           /\ \A k \in 1..(Len(log) - 1) :
                 \/ /\ log[k].state = "failed"
                    /\ log[k + 1].index = log[k].index
                    /\ ExtensionRank(log[k + 1].ext) =
                          ExtensionRank(log[k].ext) + 1
                 \/ /\ log[k].state = "ok"
                    /\ log[k + 1].index = log[k].index + 1
                    /\ log[k + 1].ext = EXTENSIONS[1]

\* loads of two folders in flight together, one after a failure and a success
C12_Witness ==
    /\ task["t1"].pc = "loading"
    /\ task["t2"].pc = "loading"
    /\ task["t1"].folder # task["t2"].folder
    /\ Len(loadLog["t1"]) = 3
    /\ loadLog["t1"][1].state = "failed"
    /\ loadLog["t1"][2].state = "ok"
    /\ loadLog["t1"][3] = [index |-> 2, ext |-> "jpeg", state |-> "pending"]
    /\ loadLog["t2"] = <<[index |-> 1, ext |-> "jpeg", state |-> "pending"]>>

----------------------------------------------------------------------------
(* Termination of a probe *)

\* C13: provided every started load eventually reports, every probeImages
\* call eventually completes; it starts at most 36 loads, returns between 0
\* and 12 URLs and never probes an index above 12, even when image 12 exists.
C13_ProbeTerminates ==
    /\ [](\A t \in Tasks :
            /\ task[t].loads <= 36
            /\ task[t].loads = Len(loadLog[t])
            /\ Len(task[t].urls) <= 12
            /\ task[t].i <= 12
            /\ \A k \in 1..Len(loadLog[t]) : loadLog[t][k].index <= 12)
    /\ \A t \in Tasks : (task[t].pc = "loading") ~> (task[t].pc = "probed")

C13_Witness ==
    \E t \in Tasks :
        /\ task[t].pc = "probed"
        /\ task[t].loads = 36
        /\ Len(task[t].urls) = 12
        /\ HasImage(12)
        /\ HasImage(13)

----------------------------------------------------------------------------
(* The listing after its handlers *)

\* the pipeline over the page's catalog under filter state f
Pipeline(all, f) ==
    applySort(SelectSeq(all, LAMBDA p : Included(p, f)), f)

\* C14: after any search, category, price, sort or clear handler the
\* displayed list is the pipeline applied to the full catalog under the
\* current filter state, the displayed count is its length and the "no
\* results" message is visible exactly when it is empty; a clear handler
\* leaves the filter state at its defaults ('', '', 250, name).
C14_DisplayFollowsFilters ==
    /\ [](ListingReady =>
            LET out == Pipeline(heap[allProducts], filters)
            IN /\ heap[filteredProducts] = out
               /\ ui.grid = [i \in 1..Len(out) |-> out[i].id]
               /\ ui.count = Len(out)
               /\ ui.noResults <=> (out = <<>>))
    /\ [][clearAllFilters =>
            filters' = [search |-> <<>>, category |-> "", maxPrice |-> 250,
                        sortBy |-> "name"]]_vars

\* a handler has narrowed a non-empty catalog down to nothing
C14_Witness ==
    /\ ListingReady
    /\ filters # DefaultFilters
    /\ heap[allProducts] # <<>>
    /\ ui.grid = <<>>
    /\ ui.count = 0
    /\ ui.noResults

----------------------------------------------------------------------------
(* The fallback mark *)

\* C15 (as claimed): after any sequence of create calls on a container, the
\* container is marked as fallback exactly when the most recent call had an
\* empty URL list; a call with URLs after a call without leaves it unmarked.
C15_FallbackIffLastEmpty ==
    \A c \in DOMAIN dom :
        lastCall[c].made =>
            (dom[c].fallback <=> NoUrls(lastCall[c].urls))

====
